---- MODULE Spec2Model ----
(***************************************************************************)
(* A model of src/dom/styling.rs of blitz: the node arena (RealDom, a slab *)
(* of NodeData built from the parsed html5ever tree), the node handle      *)
(* (BlitzNode) with its navigation, the attribute accessors, the children  *)
(* iterator (Traverser) and the per-node style slot (AtomicRefCell).       *)
(*                                                                         *)
(* Slab indices, child indices and Vec indices are 0-based as in the       *)
(* source; TLA+ sequences are 1-based, so slab entry id is nodes[id + 1].  *)
(* Strings that the code splits or compares are sequences of one-character *)
(* strings.                                                                *)
(***************************************************************************)
EXTENDS Integers, Sequences, FiniteSets, TLC

VARIABLES
    doc,    \* the parsed html5ever tree (RealDom.document), fixed by the parse
    nodes,  \* RealDom.nodes: the slab of NodeData, entry id at nodes[id + 1]
    phase,  \* "parsed" before RealDom::new has filled the slab, "ready" after,
            \* "panicked" once an operation has aborted the process
    ret,    \* the last operation the resolver called, its arguments and result
    task,   \* the resolver-side walk in progress (its iterators and what it saw)
    calls   \* per node, the last of set_/unset_dirty_descendants called on it

vars == <<doc, nodes, phase, ret, task, calls>>

----------------------------------------------------------------------------
(* Bounds of the model. *)

\* the largest parsed tree of the structural specification, document included
MaxNodes == 5
\* the largest parsed tree of the style-slot specifications
MaxSlotNodes == 3
\* the most read borrows of one slot held at once
MaxReaders == 2
\* the longest class attribute value, in characters
MaxValLen == 4
\* the largest parsed tree of the navigation specification, document included
MaxNavNodes == 4

----------------------------------------------------------------------------
(* Option::None, for an Option<usize> or an Option<BlitzNode>. *)
None == -1

(* The parsed tree.  An RcDom handle is a number 1..d.n; handle 1 is the   *)
(* document node html5ever returns.  d.children[h] is the handle's child   *)
(* list, d.data[h] its payload: a kind and, for an element, its attributes.*)
Document == 1

ParVectors(n) ==
    {p \in [1..n -> 0..(n - 1)] : p[1] = 0 /\ \A h \in 2..n : p[h] \in 1..(h - 1)}

ChildrenOf(n, par, h) ==
    SelectSeq([i \in 1..n |-> i], LAMBDA k : par[k] = h)

DocOf(n, par, data) ==
    [n |-> n,
     children |-> [h \in 1..n |-> ChildrenOf(n, par, h)],
     data |-> data]

NoAttrs == <<>>

(* The trees of the structural specification: every shape of up to         *)
(* MaxNodes nodes, every non-document node an element or a text node.      *)
TreeData(n) ==
    {[h \in 1..n |-> [kind |-> IF h = Document THEN "Document" ELSE k[h],
                      attrs |-> NoAttrs]] : k \in [1..n -> {"Element", "Text"}]}

TreeDocs ==
    UNION {{DocOf(n, par, data) : par \in ParVectors(n), data \in TreeData(n)}
           : n \in 1..MaxNodes}

----------------------------------------------------------------------------
(* The slab. *)

\* AtomicRefCell<ElementData>: the borrows of the cell that are out
Unborrowed == [readers |-> 0, writers |-> 0]

\* the record fill_slab_with_handles inserts
NodeData(id, child_index, node, parent) ==
    [parent |-> parent,
     id |-> id,
     child_idx |-> child_index,
     children |-> <<>>,
     node |-> node,
     style |-> Unborrowed,
     layout_id |-> None]

\* Slab::vacant_entry().key() of a slab nothing was removed from
vacant_key(slab) == Len(slab)

(* fill_slab_with_handles(slab, node, child_index, parent): inserts node,  *)
(* then its children in order, each with its index and this id as parent,  *)
(* then stores the children's ids.  Returns the slab and the id inserted.  *)
RECURSIVE fill_slab_with_handles(_, _, _, _, _)
RECURSIVE FillChildren(_, _, _, _, _)

FillChildrenDropIndex(d, slab, kids, idx, id) ==
    IF idx >= Len(kids) THEN [slab |-> slab, ids |-> <<>>]
    ELSE LET r == fill_slab_with_handles(d, slab, kids[idx + 1], 0, id)
             rest == FillChildren(d, r.slab, kids, idx + 1, id)
         IN  [slab |-> rest.slab, ids |-> <<r.id>> \o rest.ids]

FillChildrenSkipLast(d, slab, kids, idx, id) ==
    IF idx + 1 >= Len(kids) THEN [slab |-> slab, ids |-> <<>>]
    ELSE LET r == fill_slab_with_handles(d, slab, kids[idx + 1], idx, id)
             rest == FillChildren(d, r.slab, kids, idx + 1, id)
         IN  [slab |-> rest.slab, ids |-> <<r.id>> \o rest.ids]

\* the .iter().enumerate().map(..).collect() over node.children, from idx on
FillChildren(d, slab, kids, idx, id) ==
    IF idx >= Len(kids) THEN [slab |-> slab, ids |-> <<>>]
    ELSE LET r == fill_slab_with_handles(d, slab, kids[idx + 1], idx, id)
             rest == FillChildren(d, r.slab, kids, idx + 1, id)
         IN  [slab |-> rest.slab, ids |-> <<r.id>> \o rest.ids]

fill_slab_with_handles(d, slab, node, child_index, parent) ==
    LET id == vacant_key(slab)
        inserted == Append(slab, NodeData(id, child_index, node, parent))
        filled == FillChildren(d, inserted, d.children[node], 0, id)
    IN  [slab |-> [filled.slab EXCEPT ![id + 1].children = filled.ids],
         id |-> id]

----------------------------------------------------------------------------
(* The node handle: BlitzNode(Entry {id, dom}) is the id. *)

\* BlitzNode::data
data(self) == nodes[self + 1]

\* Vec::get / slice::get with a 0-based index
get(vec, i) == IF i < Len(vec) THEN vec[i + 1] ELSE None

\* slice::first, slice::last
first(vec) == IF Len(vec) = 0 THEN None ELSE vec[1]
last(vec) == IF Len(vec) = 0 THEN None ELSE vec[Len(vec)]

forwardSameIndex(self, n) ==
    LET node == data(self) IN
    IF node.parent = None THEN None
    ELSE get(data(node.parent).children, node.child_idx)

\* BlitzNode::forward: the node n places after self in its parent's children
forward(self, n) ==
    LET node == data(self) IN
    IF node.parent = None THEN None
    ELSE get(data(node.parent).children, node.child_idx + n)

\* the result of a call that panicked (an unwrap of None, an overflow)
Panic == -2

backwardGuardLe(self, n) ==
    LET node == data(self) IN
    IF node.child_idx <= n THEN None
    ELSE IF node.parent = None THEN None
    ELSE get(data(node.parent).children, node.child_idx - n)

backwardUnchecked(self, n) ==
    LET node == data(self) IN
    IF node.parent = None THEN None
    ELSE IF node.child_idx - n < 0 THEN Panic
    ELSE get(data(node.parent).children, node.child_idx - n)

\* BlitzNode::backward
backward(self, n) ==
    LET node == data(self) IN
    IF node.child_idx < n THEN None
    ELSE IF node.parent = None THEN None
    ELSE get(data(node.parent).children, node.child_idx - n)

\* BlitzNode::is_element
is_element(self) == doc.data[data(self).node].kind = "Element"

\* TNode
parent_node(self) == data(self).parent
first_child(self) == first(data(self).children)
last_child(self) == last(data(self).children)
prev_sibling(self) == backward(self, 1)
next_sibling(self) == forward(self, 1)

\* TNode::as_element
as_element(self) == IF is_element(self) THEN self ELSE None

\* RealDom::root_node
root_node == 0

----------------------------------------------------------------------------
(* The children iterator. *)

\* TElement::traversal_children
traversal_children(self) == [parent |-> self, child_index |-> 0]

TraverserNextStuck(it) ==
    LET node == get(data(it.parent).children, it.child_index) IN
    [it |-> it, item |-> node]

\* Traverser::next: the item yielded and the iterator after the call
TraverserNext(it) ==
    LET node == get(data(it.parent).children, it.child_index) IN
    IF node = None THEN [it |-> it, item |-> None]
    ELSE [it |-> [it EXCEPT !.child_index = it.child_index + 1], item |-> node]

----------------------------------------------------------------------------
(* The state after the parse, and RealDom::new. *)

Idle == [kind |-> "idle"]
NoRet == [op |-> "none"]

InitCommon ==
    /\ nodes = <<>>
    /\ phase = "parsed"
    /\ ret = NoRet
    /\ task = Idle
    /\ calls = <<>>

\* RealDom::new, after the parse: fills the slab from the document node
New ==
    /\ phase = "parsed"
    /\ nodes' = fill_slab_with_handles(doc, <<>>, Document, 0, None).slab
    /\ phase' = "ready"
    /\ calls' = [i \in 1..Len(nodes') |-> "none"]
    /\ UNCHANGED <<doc, ret, task>>

Ids == 0..(Len(nodes) - 1)

----------------------------------------------------------------------------
(* The resolver's walks over the arena. *)

\* a pre-order walk from the root: visit it, open its children iterator
StartWalk ==
    /\ phase = "ready" /\ task.kind = "idle"
    /\ task' = [kind |-> "walk",
                order |-> <<root_node>>,
                stack |-> <<[it |-> traversal_children(root_node), yielded |-> <<>>]>>]
    /\ ret' = [op |-> "traversal_children", self |-> root_node]
    /\ UNCHANGED <<doc, nodes, phase, calls>>

\* one Traverser::next on the innermost open iterator: a child is visited
\* and its iterator opened, or the iterator is exhausted and dropped
WalkNext ==
    /\ phase = "ready" /\ task.kind = "walk" /\ Len(task.stack) > 0
    /\ LET top == task.stack[Len(task.stack)]
           r == TraverserNext(top.it)
           below == SubSeq(task.stack, 1, Len(task.stack) - 1)
       IN  /\ ret' = [op |-> "next", self |-> top.it.parent, val |-> r.item,
                      yielded |-> top.yielded]
           /\ task' =
                IF r.item = None
                THEN [task EXCEPT !.stack = below]
                ELSE [task EXCEPT
                        !.order = Append(task.order, r.item),
                        !.stack = below \o
                            <<[it |-> r.it, yielded |-> Append(top.yielded, r.item)],
                              [it |-> traversal_children(r.item), yielded |-> <<>>]>>]
    /\ UNCHANGED <<doc, nodes, phase, calls>>

\* a sibling walk: first_child of a node
StartSiblings ==
    /\ phase = "ready" /\ task.kind = "idle"
    /\ \E p \in Ids :
         /\ task' = [kind |-> "siblings", parent |-> p, cur |-> first_child(p),
                     seen |-> IF first_child(p) = None THEN <<>>
                              ELSE <<first_child(p)>>,
                     applied |-> 0]
         /\ ret' = [op |-> "first_child", self |-> p, val |-> first_child(p)]
    /\ UNCHANGED <<doc, nodes, phase, calls>>

\* next_sibling of the node the sibling walk stands on
SiblingsNext ==
    /\ phase = "ready" /\ task.kind = "siblings" /\ task.cur # None
    /\ LET nxt == next_sibling(task.cur) IN
         /\ task' = [task EXCEPT !.cur = nxt,
                                 !.seen = IF nxt = None THEN @ ELSE Append(@, nxt),
                                 !.applied = @ + 1]
         /\ ret' = [op |-> "next_sibling", self |-> task.cur, val |-> nxt]
    /\ UNCHANGED <<doc, nodes, phase, calls>>

\* the walk is over: the resolver drops its iterators
EndTask ==
    /\ phase = "ready"
    /\ \/ task.kind = "walk" /\ Len(task.stack) = 0
       \/ task.kind = "siblings" /\ task.cur = None
    /\ task' = Idle
    /\ ret' = NoRet
    /\ UNCHANGED <<doc, nodes, phase, calls>>

InitTree == doc \in TreeDocs /\ InitCommon

NextTree == New \/ StartWalk \/ WalkNext \/ StartSiblings \/ SiblingsNext \/ EndTask

SpecTree == InitTree /\ [][NextTree]_vars

----------------------------------------------------------------------------
(* The style slot: NodeData.style, an AtomicRefCell<ElementData>.  The     *)
(* cell counts the shared borrows (AtomicRef) and the exclusive borrows    *)
(* (AtomicRefMut) that are out.  try_borrow and try_borrow_mut answer Err  *)
(* at once where the borrow cannot be given, and .ok() turns that into     *)
(* None; borrow_mut panics there.  A guard's drop gives its borrow back.   *)

try_borrowIgnoresWriter(cell) ==
    [ok |-> TRUE, cell |-> [cell EXCEPT !.readers = @ + 1]]

try_borrowCountsFailure(cell) ==
    [ok |-> cell.writers = 0, cell |-> [cell EXCEPT !.readers = @ + 1]]

\* AtomicRefCell::try_borrow: refused while an exclusive borrow is out
try_borrow(cell) ==
    IF cell.writers > 0
    THEN [ok |-> FALSE, cell |-> cell]
    ELSE [ok |-> TRUE, cell |-> [cell EXCEPT !.readers = @ + 1]]

try_borrow_mutIgnoresReaders(cell) ==
    IF cell.writers > 0
    THEN [ok |-> FALSE, cell |-> cell]
    ELSE [ok |-> TRUE, cell |-> [cell EXCEPT !.writers = @ + 1]]

\* AtomicRefCell::try_borrow_mut: refused while any borrow is out
try_borrow_mut(cell) ==
    IF cell.writers > 0 \/ cell.readers > 0
    THEN [ok |-> FALSE, cell |-> cell]
    ELSE [ok |-> TRUE, cell |-> [cell EXCEPT !.writers = @ + 1]]

\* AtomicRefCell::borrow_mut: try_borrow_mut, panicking where it is refused
borrow_mut(cell) ==
    LET r == try_borrow_mut(cell) IN
    [ok |-> r.ok, cell |-> r.cell, panic |-> ~r.ok]

\* every slot's borrows, by node id
Styles == [id \in Ids |-> data(id).style]

\* Option<AtomicRef> / Option<AtomicRefMut> of .ok()
ok(r) == IF r.ok THEN "Some" ELSE "None"

\* TElement::borrow_data
borrow_data(self) ==
    /\ phase = "ready"
    /\ LET r == try_borrow(data(self).style) IN
         /\ r.cell.readers <= MaxReaders
         /\ nodes' = [nodes EXCEPT ![self + 1].style = r.cell]
         /\ ret' = [op |-> "borrow_data", self |-> self, val |-> ok(r),
                    before |-> Styles]
    /\ UNCHANGED <<doc, phase, task, calls>>

\* TElement::mutate_data
mutate_data(self) ==
    /\ phase = "ready"
    /\ LET r == try_borrow_mut(data(self).style) IN
         /\ nodes' = [nodes EXCEPT ![self + 1].style = r.cell]
         /\ ret' = [op |-> "mutate_data", self |-> self, val |-> ok(r),
                    before |-> Styles]
    /\ UNCHANGED <<doc, phase, task, calls>>

\* TElement::ensure_data: the borrow, or the panic of borrow_mut
ensure_data(self) ==
    /\ phase = "ready"
    /\ LET r == borrow_mut(data(self).style) IN
         /\ nodes' = [nodes EXCEPT ![self + 1].style = r.cell]
         /\ phase' = IF r.panic THEN "panicked" ELSE phase
         /\ ret' = [op |-> "ensure_data", self |-> self,
                    val |-> IF r.panic THEN "panic" ELSE IF r.ok THEN "RefMut" ELSE "None",
                    before |-> Styles]
    /\ UNCHANGED <<doc, task, calls>>

\* an AtomicRef the resolver holds goes out of scope
drop_ref(self) ==
    /\ phase = "ready"
    /\ data(self).style.readers > 0
    /\ nodes' = [nodes EXCEPT ![self + 1].style.readers = @ - 1]
    /\ ret' = [op |-> "drop_ref", self |-> self]
    /\ UNCHANGED <<doc, phase, task, calls>>

\* an AtomicRefMut the resolver holds goes out of scope
drop_ref_mut(self) ==
    /\ phase = "ready"
    /\ data(self).style.writers > 0
    /\ nodes' = [nodes EXCEPT ![self + 1].style.writers = @ - 1]
    /\ ret' = [op |-> "drop_ref_mut", self |-> self]
    /\ UNCHANGED <<doc, phase, task, calls>>

(* The trees of the style-slot specifications: every shape of up to        *)
(* MaxSlotNodes nodes, every non-document node an element.                 *)
SlotDocs ==
    UNION {{DocOf(n, par, [h \in 1..n |->
                    [kind |-> IF h = Document THEN "Document" ELSE "Element",
                     attrs |-> NoAttrs]]) : par \in ParVectors(n)}
           : n \in 1..MaxSlotNodes}

InitSlot == doc \in SlotDocs /\ InitCommon

BorrowData == \E self \in Ids : borrow_data(self)
MutateData == \E self \in Ids : mutate_data(self)
EnsureData == \E self \in Ids : ensure_data(self)
DropRef == \E self \in Ids : drop_ref(self)
DropRefMut == \E self \in Ids : drop_ref_mut(self)

NextSlot == New \/ BorrowData \/ MutateData \/ EnsureData \/ DropRef \/ DropRefMut

SpecSlot == InitSlot /\ [][NextSlot]_vars

----------------------------------------------------------------------------
(* The dirty-descendants flag and has_data. *)

\* TElement::has_dirty_descendants
has_dirty_descendants(self) ==
    /\ phase = "ready"
    /\ ret' = [op |-> "has_dirty_descendants", self |-> self, val |-> FALSE,
               lastCall |-> calls[self + 1]]
    /\ UNCHANGED <<doc, nodes, phase, task, calls>>

\* TElement::set_dirty_descendants: prints, stores nothing
set_dirty_descendants(self) ==
    /\ phase = "ready"
    /\ calls' = [calls EXCEPT ![self + 1] = "set"]
    /\ ret' = [op |-> "set_dirty_descendants", self |-> self]
    /\ UNCHANGED <<doc, nodes, phase, task>>

\* TElement::unset_dirty_descendants: prints, stores nothing
unset_dirty_descendants(self) ==
    /\ phase = "ready"
    /\ calls' = [calls EXCEPT ![self + 1] = "unset"]
    /\ ret' = [op |-> "unset_dirty_descendants", self |-> self]
    /\ UNCHANGED <<doc, nodes, phase, task>>

\* TElement::has_data: todo!()
has_data(self) ==
    /\ phase = "ready"
    /\ phase' = "panicked"
    /\ ret' = [op |-> "has_data", self |-> self, val |-> "panic"]
    /\ UNCHANGED <<doc, nodes, task, calls>>

HasDirtyDescendants == \E self \in Ids : has_dirty_descendants(self)
SetDirtyDescendants == \E self \in Ids : set_dirty_descendants(self)
UnsetDirtyDescendants == \E self \in Ids : unset_dirty_descendants(self)
HasData == \E self \in Ids : has_data(self)

NextFlags ==
    New \/ HasDirtyDescendants \/ SetDirtyDescendants \/ UnsetDirtyDescendants
        \/ HasData

SpecFlags == InitSlot /\ [][NextFlags]_vars

----------------------------------------------------------------------------
(* The attribute accessors.  An attribute is [name, value]: the name is    *)
(* attr.name.local, the value a sequence of characters.                    *)

\* u8::is_ascii_whitespace: space, tab, line feed, form feed, carriage return
AsciiWhitespace == {" ", "\t", "\n", "\f", "\r"}
is_ascii_whitespace(c) == c \in AsciiWhitespace

RECURSIVE SplitFrom(_, _, _, _)
\* the scan of s from position i on, cur the piece begun, seps the
\* separating characters: the non-empty pieces between separators
SplitFrom(s, i, cur, seps) ==
    LET done == IF cur = <<>> THEN <<>> ELSE <<cur>> IN
    IF i > Len(s) THEN done
    ELSE IF s[i] \in seps THEN done \o SplitFrom(s, i + 1, <<>>, seps)
    ELSE SplitFrom(s, i + 1, Append(cur, s[i]), seps)

split_on_space(s) == SplitFrom(s, 1, <<>>, {" "})

\* str::split_ascii_whitespace
split_ascii_whitespace(s) == SplitFrom(s, 1, <<>>, AsciiWhitespace)

\* the attrs of the element behind a handle (attrs.borrow())
attrs_of(self) == doc.data[data(self).node].attrs

RECURSIVE EachClassFrom(_, _)
\* the callbacks of each_class for the attributes from position i on
EachClassFrom(attrs, i) ==
    IF i > Len(attrs) THEN <<>>
    ELSE IF attrs[i].name # "class" THEN EachClassFrom(attrs, i + 1)
    ELSE split_ascii_whitespace(attrs[i].value) \o EachClassFrom(attrs, i + 1)

\* TElement::each_class: the atoms the callback is called with, in order
each_class(self) ==
    IF as_element(self) = None THEN <<>>
    ELSE EachClassFrom(attrs_of(self), 1)

\* TElement::each_attr_name: the local names the callback is called with
each_attr_name(self) ==
    IF as_element(self) = None THEN <<>>
    ELSE [i \in 1..Len(attrs_of(self)) |-> attrs_of(self)[i].name]

\* selectors::Element::has_id: the id asked for is not looked at
has_id(self, id) ==
    \E i \in 1..Len(each_attr_name(self)) : each_attr_name(self)[i] = "id"

\* selectors::Element::has_class
has_class(self, search_name) ==
    IF as_element(self) = None THEN FALSE
    ELSE \E i \in 1..Len(attrs_of(self)) :
            /\ attrs_of(self)[i].name = "class"
            /\ \E j \in 1..Len(split_ascii_whitespace(attrs_of(self)[i].value)) :
                 split_ascii_whitespace(attrs_of(self)[i].value)[j] = search_name

(* The inputs of the attribute specification.  Class values are every      *)
(* string of up to MaxValLen characters over two letters, the space and    *)
(* the tab; identifiers asked for are "a", "b" and "ab".                   *)
Alphabet == {"a", "b", " ", "\t"}
Values == UNION {[1..n -> Alphabet] : n \in 0..MaxValLen}
Names == {<<"a">>, <<"b">>, <<"a", "b">>}

Attr(name, value) == [name |-> name, value |-> value]

\* attribute lists as html5ever leaves them: no name twice
AttrLists ==
    {<<>>}
    \cup {<<Attr("id", i)>> : i \in Names}
    \cup {<<Attr("title", <<"a">>), Attr("id", i)>> : i \in Names}
    \cup {<<Attr("class", v)>> : v \in Values}
    \cup {<<Attr("id", <<"a">>), Attr("class", v)>> : v \in Values}
    \cup {<<Attr("class", v), Attr("title", <<"b">>)>> : v \in Values}

\* a document node with one child: an element with attributes, a text node
\* or a comment
AttrDocs ==
    {DocOf(2, <<0, 1>>, <<[kind |-> "Document", attrs |-> NoAttrs],
                          [kind |-> "Element", attrs |-> a]>>) : a \in AttrLists}
    \cup {DocOf(2, <<0, 1>>, <<[kind |-> "Document", attrs |-> NoAttrs],
                               [kind |-> k, attrs |-> NoAttrs]>>)
            : k \in {"Text", "Comment"}}

HasId ==
    /\ phase = "ready"
    /\ \E self \in Ids, id \in Names :
         ret' = [op |-> "has_id", self |-> self, arg |-> id,
                 val |-> has_id(self, id)]
    /\ UNCHANGED <<doc, nodes, phase, task, calls>>

HasClass ==
    /\ phase = "ready"
    /\ \E self \in Ids, search_name \in Names :
         ret' = [op |-> "has_class", self |-> self, arg |-> search_name,
                 val |-> has_class(self, search_name)]
    /\ UNCHANGED <<doc, nodes, phase, task, calls>>

EachClass ==
    /\ phase = "ready"
    /\ \E self \in Ids :
         ret' = [op |-> "each_class", self |-> self, val |-> each_class(self)]
    /\ UNCHANGED <<doc, nodes, phase, task, calls>>

EachAttrName ==
    /\ phase = "ready"
    /\ \E self \in Ids :
         ret' = [op |-> "each_attr_name", self |-> self,
                 val |-> each_attr_name(self)]
    /\ UNCHANGED <<doc, nodes, phase, task, calls>>

InitAttr == doc \in AttrDocs /\ InitCommon

NextAttr == New \/ HasId \/ HasClass \/ EachClass \/ EachAttrName

SpecAttr == InitAttr /\ [][NextAttr]_vars

----------------------------------------------------------------------------
(* Navigation from a handle, and the root element. *)

RECURSIVE PrevSiblingElementFrom(_, _)
\* the while loop of prev_sibling_element from step n on
PrevSiblingElementFrom(self, n) ==
    LET node == backward(self, n) IN
    IF node = None THEN None
    ELSE IF is_element(node) THEN node
    ELSE PrevSiblingElementFrom(self, n + 1)

\* selectors::Element::prev_sibling_element
prev_sibling_element(self) == PrevSiblingElementFrom(self, 1)

RECURSIVE NextSiblingElementFrom(_, _)
\* the while loop of next_sibling_element from step n on
NextSiblingElementFrom(self, n) ==
    LET node == forward(self, n) IN
    IF node = None THEN None
    ELSE IF is_element(node) THEN node
    ELSE NextSiblingElementFrom(self, n + 1)

next_sibling_elementNoSkip(self) == forward(self, 1)

\* selectors::Element::next_sibling_element
next_sibling_element(self) == NextSiblingElementFrom(self, 1)

\* Option::unwrap
unwrap(opt) == IF opt = None THEN Panic ELSE opt

\* RealDom::root_element: root_node().first_child().unwrap().as_element().unwrap()
root_element ==
    LET child == unwrap(first_child(root_node)) IN
    IF child = Panic THEN Panic ELSE unwrap(as_element(child))

(* The trees of the navigation specification, as html5ever's               *)
(* parse_document leaves them: the document node has an element child (it  *)
(* always makes an html element) and, around it, comments or a doctype;    *)
(* below the document, a node is an element or a text node.                *)
NavData(n, par) ==
    {[h \in 1..n |->
        [kind |-> IF h = Document THEN "Document"
                  ELSE IF k[h] THEN "Element"
                  ELSE IF par[h] = Document THEN "Comment" ELSE "Text",
         attrs |-> NoAttrs]] : k \in [1..n -> BOOLEAN]}

NavDocs ==
    UNION {UNION {{d \in {DocOf(n, par, payloads) : payloads \in NavData(n, par)} :
                     \E i \in 1..Len(d.children[Document]) :
                        d.data[d.children[Document][i]].kind = "Element"}
                  : par \in ParVectors(n)}
           : n \in 1..MaxNavNodes}

\* a navigation call on a handle: the operation named op and its result
NavCall(op, self, val) ==
    /\ phase = "ready"
    /\ ret' = [op |-> op, self |-> self, val |-> val]
    /\ UNCHANGED <<doc, nodes, phase, task, calls>>

ParentNode == \E self \in Ids : NavCall("parent_node", self, parent_node(self))
FirstChild == \E self \in Ids : NavCall("first_child", self, first_child(self))
LastChild == \E self \in Ids : NavCall("last_child", self, last_child(self))
NextSibling == \E self \in Ids : NavCall("next_sibling", self, next_sibling(self))
PrevSibling == \E self \in Ids : NavCall("prev_sibling", self, prev_sibling(self))
NextSiblingElement ==
    \E self \in Ids :
        NavCall("next_sibling_element", self, next_sibling_element(self))
PrevSiblingElement ==
    \E self \in Ids :
        NavCall("prev_sibling_element", self, prev_sibling_element(self))

\* RealDom::root_element: the element, or the panic of an unwrap
RootElement ==
    /\ phase = "ready"
    /\ ret' = [op |-> "root_element", self |-> root_node, val |-> root_element]
    /\ phase' = IF root_element = Panic THEN "panicked" ELSE phase
    /\ UNCHANGED <<doc, nodes, task, calls>>

InitNav == doc \in NavDocs /\ InitCommon

NextNav ==
    New \/ ParentNode \/ FirstChild \/ LastChild \/ NextSibling \/ PrevSibling
        \/ NextSiblingElement \/ PrevSiblingElement \/ RootElement

SpecNav == InitNav /\ [][NextNav]_vars

----------------------------------------------------------------------------
(* The arena after construction. *)

Built == phase # "parsed"

\* C5 Structural consistency: after construction every node with a parent
\* sits in its parent's children list at index child_idx, and the root
\* (identity 0) is the only node without a parent.
C5_StructuralConsistency ==
    Built =>
        \A id \in Ids :
            /\ (data(id).parent = None) <=> (id = 0)
            /\ data(id).parent # None =>
                 /\ data(id).parent \in Ids
                 /\ data(id).child_idx < Len(data(data(id).parent).children)
                 /\ data(data(id).parent).children[data(id).child_idx + 1] = id

\* a constructed arena with a node that is not its parent's first child
C5_Witness ==
    /\ Built
    /\ \E id \in Ids : data(id).parent # None /\ data(id).child_idx >= 1

\* C6 Identity density: a parsed tree of N nodes gives exactly N records,
\* whose identities are pairwise distinct and are exactly 0..N-1, each
\* stored id being its slab index, one record per parsed node, and the
\* document node at identity 0.
C6_IdentityDensity ==
    Built =>
        /\ Len(nodes) = doc.n
        /\ \A i \in 1..Len(nodes) : nodes[i].id = i - 1
        /\ {nodes[i].id : i \in 1..Len(nodes)} = 0..(doc.n - 1)
        /\ \A i, j \in 1..Len(nodes) : nodes[i].id = nodes[j].id => i = j
        /\ {nodes[i].node : i \in 1..Len(nodes)} = 1..doc.n
        /\ data(root_node).node = Document
        /\ data(root_node).id = 0

\* a constructed arena of several nodes, nested at least two deep
C6_Witness ==
    /\ Built
    /\ Len(nodes) >= 4
    /\ \E id \in Ids : data(id).parent # None /\ data(id).parent # 0

(* The pre-order walk of the parsed tree itself: a node, then each of its  *)
(* children's subtrees in child-list order.                                *)
RECURSIVE ParsedPreOrder(_, _)
RECURSIVE ParsedPreOrderFrom(_, _, _)

ParsedPreOrderFrom(d, kids, i) ==
    IF i > Len(kids) THEN <<>>
    ELSE ParsedPreOrder(d, kids[i]) \o ParsedPreOrderFrom(d, kids, i + 1)

ParsedPreOrder(d, h) == <<h>> \o ParsedPreOrderFrom(d, d.children[h], 1)

IsPrefix(s, t) == Len(s) <= Len(t) /\ s = SubSeq(t, 1, Len(s))

\* C7 Document-order preservation: the finished pre-order walk through the
\* children iterators has visited the arena's nodes in the pre-order of the
\* parsed tree; every open iterator has yielded a prefix of its parent's
\* children, in order, one per call from the first child on, and answers
\* none only once it has yielded them all.
C7_DocumentOrder ==
    task.kind = "walk" =>
        /\ Len(task.stack) = 0 =>
             [i \in 1..Len(task.order) |-> data(task.order[i]).node]
                = ParsedPreOrder(doc, Document)
        /\ \A i \in 1..Len(task.stack) :
             /\ IsPrefix(task.stack[i].yielded,
                         data(task.stack[i].it.parent).children)
             /\ task.stack[i].it.child_index = Len(task.stack[i].yielded)
        /\ ret.op = "next" =>
             /\ IsPrefix(ret.yielded, data(ret.self).children)
             /\ ret.val = None <=> ret.yielded = data(ret.self).children
             /\ ret.val # None =>
                  ret.val = data(ret.self).children[Len(ret.yielded) + 1]

\* a finished walk of a tree with a node of two children and a grandchild
C7_Witness ==
    /\ task.kind = "walk"
    /\ Len(task.stack) = 0
    /\ Len(task.order) >= 4
    /\ \E id \in Ids : Len(data(id).children) >= 2
    /\ \E id \in Ids : data(id).parent # None /\ data(id).parent # 0

\* C8 Sibling round-trip: from first_child of a parent with k >= 1
\* children, repeated next_sibling visits the k children once each, in
\* children-list order, and answers none exactly at the k-th application.
C8_SiblingRoundTrip ==
    (task.kind = "siblings" /\ Len(data(task.parent).children) >= 1) =>
        LET kids == data(task.parent).children
            k == Len(kids)
        IN  /\ IsPrefix(task.seen, kids)
            /\ task.applied <= k
            /\ (task.cur = None) <=> (task.applied = k)
            /\ task.cur # None =>
                 /\ Len(task.seen) = task.applied + 1
                 /\ task.cur = kids[task.applied + 1]
            /\ task.cur = None => task.seen = kids

\* a sibling walk that has run through three children to the final none
C8_Witness ==
    /\ task.kind = "siblings"
    /\ task.cur = None
    /\ task.applied >= 3
    /\ Len(task.seen) = task.applied

----------------------------------------------------------------------------
(* The style slot's borrowing discipline. *)

Requested == ret.op \in {"borrow_data", "mutate_data"}

\* C1 Slot mutual exclusion: while a write borrow of a node's slot is out,
\* borrow_data and mutate_data on that node are refused; and a request is
\* refused only for borrows of the requested node's own slot, whatever the
\* other nodes' slots hold.
C1_SlotMutualExclusion ==
    Requested =>
        /\ ret.before[ret.self].writers > 0 => ret.val = "None"
        /\ ret.val = "None" =>
             \/ ret.before[ret.self].writers > 0
             \/ ret.op = "mutate_data" /\ ret.before[ret.self].readers > 0
        /\ (ret.before[ret.self] = Unborrowed) => ret.val = "Some"

\* a read request refused on a write-borrowed slot while another node's
\* slot is write-borrowed too
C1_Witness ==
    /\ ret.op = "borrow_data"
    /\ ret.val = "None"
    /\ ret.before[ret.self].writers = 1
    /\ \E m \in Ids : m # ret.self /\ data(m).style.writers = 1

\* what makes a request on a slot ungrantable
Ungrantable(op, cell) ==
    IF op = "borrow_data" THEN cell.writers > 0
    ELSE cell.writers > 0 \/ cell.readers > 0

C9_SharedReadBorrows ==
    /\ ret.op = "borrow_data" =>
         (ret.val = "Some" <=> ret.before[ret.self].writers = 0)
    /\ (ret.op = "mutate_data" /\ ret.before[ret.self].readers >= 1) =>
         ret.val = "None"
    /\ \A id \in Ids :
         /\ data(id).style.writers <= 1
         /\ ~(data(id).style.writers >= 1 /\ data(id).style.readers >= 1)

\* a read borrow granted on a slot that already has a reader
C9_Witness ==
    /\ ret.op = "borrow_data"
    /\ ret.val = "Some"
    /\ ret.before[ret.self].readers >= 1
    /\ data(ret.self).style.readers >= 2

\* C4 as claimed: has_dirty_descendants answers true exactly when the last
\* of set_dirty_descendants / unset_dirty_descendants called on that node
\* was set_dirty_descendants.
C4_StoredDirtyFlag ==
    ret.op = "has_dirty_descendants" =>
        (ret.val <=> ret.lastCall = "set")

----------------------------------------------------------------------------
(* The attribute accessors' results. *)

\* the payload of the node behind a handle
Payload(self) == doc.data[data(self).node]

\* C3 as claimed: has_id(name) is true exactly when the node is an element
\* with an id attribute whose value equals name.
C3_HasIdMatchesValue ==
    ret.op = "has_id" =>
        (ret.val <=>
            /\ Payload(ret.self).kind = "Element"
            /\ \E i \in 1..Len(Payload(ret.self).attrs) :
                 /\ Payload(ret.self).attrs[i].name = "id"
                 /\ Payload(ret.self).attrs[i].value = ret.arg)

\* the maximal runs of non-whitespace characters of v, as <<from, to>>
Runs(v) ==
    {b \in (1..Len(v)) \X (1..Len(v)) :
        /\ b[1] <= b[2]
        /\ \A k \in b[1]..b[2] : ~is_ascii_whitespace(v[k])
        /\ b[1] = 1 \/ is_ascii_whitespace(v[b[1] - 1])
        /\ b[2] = Len(v) \/ is_ascii_whitespace(v[b[2] + 1])}

\* toks lists the runs of v, each once, from left to right
IsTokensOf(toks, v) ==
    /\ Len(toks) = Cardinality(Runs(v))
    /\ \A b \in Runs(v) :
         toks[Cardinality({c \in Runs(v) : c[1] < b[1]}) + 1]
            = SubSeq(v, b[1], b[2])

\* the class attribute values of an element's payload (none for others)
ClassValuesOf(self) ==
    IF Payload(self).kind # "Element" THEN {}
    ELSE {Payload(self).attrs[i].value :
            i \in {j \in 1..Len(Payload(self).attrs) :
                      Payload(self).attrs[j].name = "class"}}

\* C10 Class matching: each_class calls back once per whitespace-separated
\* token of the class value, in source order, and has_class(name) is true
\* exactly when name is one of those whole tokens; both give nothing/false
\* on a non-element (and on an element without a class attribute).
C10_ClassMatching ==
    /\ ret.op = "each_class" =>
         /\ ClassValuesOf(ret.self) = {} => ret.val = <<>>
         /\ \A v \in ClassValuesOf(ret.self) : IsTokensOf(ret.val, v)
    /\ ret.op = "has_class" =>
         (ret.val <=>
            \E v \in ClassValuesOf(ret.self) :
                \E b \in Runs(v) : SubSeq(v, b[1], b[2]) = ret.arg)

\* each_class on a class value of two different tokens around a tab,
\* with whitespace at an end of the value as well
C10_Witness ==
    /\ ret.op = "each_class"
    /\ Len(ret.val) = 2
    /\ \E v \in ClassValuesOf(ret.self) : Len(v) = 4
    /\ ret.val[1] # ret.val[2]
    /\ \E v \in ClassValuesOf(ret.self) : \E k \in 1..Len(v) : v[k] = "\t"

----------------------------------------------------------------------------
(* Navigation results. *)

\* C11 as claimed: root_element never aborts; it returns the first child
\* of the identity-0 node, which exists and is an element.
C11_RootElementNeverAborts ==
    ret.op = "root_element" =>
        /\ ret.val # Panic
        /\ phase = "ready"
        /\ Len(data(root_node).children) >= 1
        /\ ret.val = data(root_node).children[1]
        /\ Payload(ret.val).kind = "Element"

\* the positions (0-based) of the element siblings of a node in its
\* parent's children; none for a node without a parent
ElementSiblingPositions(self) ==
    IF data(self).parent = None THEN {}
    ELSE {i \in 0..(Len(data(data(self).parent).children) - 1) :
            Payload(data(data(self).parent).children[i + 1]).kind = "Element"}

Min(S) == CHOOSE x \in S : \A y \in S : x <= y
Max(S) == CHOOSE x \in S : \A y \in S : x >= y

\* C12 Element-sibling skipping: next_sibling_element is the element
\* sibling at the smallest position after the node's, prev_sibling_element
\* the one at the largest position before it; each is none exactly when
\* there is no such sibling, and never a non-element or the node itself.
C12_ElementSiblingSkipping ==
    /\ ret.op = "next_sibling_element" =>
         LET after == {i \in ElementSiblingPositions(ret.self) :
                          i > data(ret.self).child_idx}
         IN  /\ (ret.val = None) <=> (after = {})
             /\ after # {} =>
                  /\ ret.val = data(data(ret.self).parent).children[Min(after) + 1]
                  /\ Payload(ret.val).kind = "Element"
                  /\ ret.val # ret.self
    /\ ret.op = "prev_sibling_element" =>
         LET before == {i \in ElementSiblingPositions(ret.self) :
                           i < data(ret.self).child_idx}
         IN  /\ (ret.val = None) <=> (before = {})
             /\ before # {} =>
                  /\ ret.val = data(data(ret.self).parent).children[Max(before) + 1]
                  /\ Payload(ret.val).kind = "Element"
                  /\ ret.val # ret.self

\* next_sibling_element has skipped a text node to reach an element
C12_Witness ==
    /\ ret.op = "next_sibling_element"
    /\ ret.val # None
    /\ data(ret.val).child_idx >= data(ret.self).child_idx + 2

\* C13 Navigation misses are absence: the five navigation calls complete
\* on every node with a node or none; parent_node and both sibling calls
\* are none at the root, next_sibling none at a last child, prev_sibling
\* none at a first child, first_child and last_child none on a leaf.
C13_NavigationMisses ==
    ret.op \in {"parent_node", "first_child", "last_child",
                "next_sibling", "prev_sibling"} =>
        LET node == data(ret.self) IN
        /\ phase = "ready"
        /\ ret.val # Panic
        /\ ret.val = None \/ ret.val \in Ids
        /\ (ret.self = root_node /\ ret.op \in {"parent_node", "next_sibling",
                                               "prev_sibling"})
             => ret.val = None
        /\ (ret.op = "next_sibling" /\ node.parent # None
              /\ node.child_idx = Len(data(node.parent).children) - 1)
             => ret.val = None
        /\ (ret.op = "prev_sibling" /\ node.child_idx = 0) => ret.val = None
        /\ (ret.op \in {"first_child", "last_child"} /\ node.children = <<>>)
             => ret.val = None

\* prev_sibling answered none at a first child that has a sibling after it
C13_Witness ==
    /\ ret.op = "prev_sibling"
    /\ ret.val = None
    /\ ret.self # root_node
    /\ data(ret.self).child_idx = 0
    /\ Len(data(data(ret.self).parent).children) >= 2

\* C14 Tree well-formedness: every entry of a children list names a node
\* whose parent is the list's owner and whose child_idx is the entry's
\* index; every non-root identity is in exactly one children list, once;
\* parent_node(first_child(n)) = n; prev_sibling(next_sibling(x)) = x
\* wherever next_sibling(x) exists.
C14_TreeWellFormed ==
    Built =>
        /\ \A n \in Ids : \A i \in 0..(Len(data(n).children) - 1) :
             LET c == data(n).children[i + 1] IN
             /\ c \in Ids
             /\ data(c).parent = n
             /\ data(c).child_idx = i
        /\ \A c \in Ids \ {root_node} :
             Cardinality({<<n, i>> \in Ids \X (1..Len(nodes)) :
                            /\ i <= Len(data(n).children)
                            /\ data(n).children[i] = c}) = 1
        /\ \A n \in Ids :
             first_child(n) # None => parent_node(first_child(n)) = n
        /\ \A x \in Ids :
             next_sibling(x) # None => prev_sibling(next_sibling(x)) = x

\* a constructed arena where some node has a next sibling and some child
\* has children of its own
C14_Witness ==
    /\ Built
    /\ \E x \in Ids : next_sibling(x) # None
    /\ \E n \in Ids \ {root_node} : first_child(n) # None

====
